---- MODULE Spec2Model ----
(***************************************************************************)
(* Model of src/App.tsx: the App component that relays the events of a     *)
(* RetellWebClient into a chat transcript and forwards typed text to it.   *)
(*                                                                         *)
(* A string is a sequence of characters.  A string literal of the source   *)
(* is kept as one opaque character, so that "Call ended" reads             *)
(* <<"Call ended">>; typed text is spelled character by character because  *)
(* String.prototype.trim looks at its characters.  A value that may be     *)
(* null or undefined is a record [isNull, val].                            *)
(***************************************************************************)
EXTENDS Naturals, Sequences, FiniteSets

\* Longest transcript explored.
MaxMsgs == 2

Str(s) == <<s>>

agentId == Str("agent_1e1cc9d0370c420aab5f869e7e")

CallStartedText == Str("Call started")
CallEndedText == Str("Call ended")
UnknownErrorText == Str("Unknown error")
ListeningText == Str("Agent is listening...")
RecognizingText == Str("Recognizing speech...")
CallingAgentText == Str("Calling agent...")
NotInitializedText == Str("Client not initialized")

Null == [isNull |-> TRUE, val |-> <<>>]
Some(s) == [isNull |-> FALSE, val |-> s]

\* What the SDK hands to a callback: null/undefined, the empty string or a text.
SdkText == Str("sdk text")
SdkValues == {Null, Some(<<>>), Some(SdkText)}

\* update.agent_message and update.user_message as the SDK may send them.
MessageValues == {Null, Some(SdkText)}

\* update.status as the SDK may send it.
StatusValues == {Some(Str("listening")), Some(Str("recognizing")), Some(Str("idle"))}

UpdateKeys == {"error", "status", "agent_message", "user_message"}

\* A key of an update: absent, or present with a value.
Absent == [has |-> FALSE, v |-> Null]
Present(values) == {[has |-> TRUE, v |-> x] : x \in values}
Optional(values) == {Absent} \cup Present(values)

\* The update object with the given keys; a key that is absent reads undefined.
MkUpdate(e, s, a, m) ==
  [keys |-> {k \in UpdateKeys : \/ (k = "error" /\ e.has)
                                \/ (k = "status" /\ s.has)
                                \/ (k = "agent_message" /\ a.has)
                                \/ (k = "user_message" /\ m.has)},
   error |-> e.v, status |-> s.v, agent_message |-> a.v, user_message |-> m.v]

\* Updates without an error key: any set of the other keys.
PlainUpdates ==
  {MkUpdate(Absent, s, a, m) : s \in Optional(StatusValues),
                               a \in Optional(MessageValues),
                               m \in Optional(MessageValues)}

\* Updates with an error key: alone, with one of the other keys, or with all.
ErrorUpdates ==
  {MkUpdate(e, s, a, m) :
     e \in Present(SdkValues),
     s \in Optional({Some(Str("listening"))}),
     a \in Optional({Some(SdkText)}),
     m \in Optional({Some(SdkText)})}

Updates == PlainUpdates \cup ErrorUpdates

\* What the user may have typed into the TextInput.
TypedTexts ==
  { <<>>, <<" ", "\t">>, <<"h", "i">>, <<" ", "a", " ", "b", "\n">> }

WhiteSpace == {" ", "\t", "\n"}

VARIABLES isCalling, isAgentTalking, messages, input, retellWebClientRef,
          subscribed, sdkCalls, lastOp

vars == <<isCalling, isAgentTalking, messages, input, retellWebClientRef,
          subscribed, sdkCalls, lastOp>>

\* The value of retellWebClientRef.current.
NoClient == "null"
Client == "RetellWebClient"

\* a ?? b
Coalesce(v, d) == IF v.isNull THEN d ELSE v.val

RECURSIVE TrimStart(_)
TrimStart(s) ==
  IF s = <<>> THEN s
  ELSE IF Head(s) \in WhiteSpace THEN TrimStart(Tail(s)) ELSE s

RECURSIVE TrimEnd(_)
TrimEnd(s) ==
  IF s = <<>> THEN s
  ELSE IF s[Len(s)] \in WhiteSpace THEN TrimEnd(SubSeq(s, 1, Len(s) - 1)) ELSE s

trimNothing(s) == s

\* input.trim()
trim(s) == TrimEnd(TrimStart(s))

addMessagePrepend(msgs, text, type) == <<[type |-> type, text |-> text]>> \o msgs

\* setMessages((msgs) => [...msgs, { type, text }])
addMessage(msgs, text, type) == Append(msgs, [type |-> type, text |-> text])

\* One invocation of a method of the SDK client.
Call(method, arg) == [method |-> method, arg |-> arg]

Init ==
  /\ isCalling = FALSE
  /\ isAgentTalking = FALSE
  /\ messages = <<>>
  /\ input = <<>>
  /\ retellWebClientRef = NoClient
  /\ subscribed = FALSE
  /\ sdkCalls = <<>>
  /\ lastOp = "render"

\* The mount effect: creates the client and subscribes the six callbacks.
MountEffect ==
  /\ retellWebClientRef = NoClient
  /\ ~subscribed
  /\ retellWebClientRef' = Client
  /\ subscribed' = TRUE
  /\ sdkCalls' = <<>>
  /\ lastOp' = "mount"
  /\ UNCHANGED <<isCalling, isAgentTalking, messages, input>>

\* The cleanup of the mount effect.
Cleanup ==
  /\ retellWebClientRef = Client
  /\ retellWebClientRef' = NoClient
  /\ sdkCalls' = <<>>
  /\ lastOp' = "cleanup"
  /\ UNCHANGED <<isCalling, isAgentTalking, messages, input, subscribed>>

OnCallStartedSetsCalling(data) ==
  /\ subscribed
  /\ Len(messages) < MaxMsgs
  /\ messages' = addMessage(messages, Coalesce(data, CallStartedText), "system")
  /\ isCalling' = TRUE
  /\ sdkCalls' = <<>>
  /\ lastOp' = "call_started"
  /\ UNCHANGED <<isAgentTalking, input, retellWebClientRef, subscribed>>

\* client.on("call_started", ...)
OnCallStarted(data) ==
  /\ subscribed
  /\ Len(messages) < MaxMsgs
  /\ messages' = addMessage(messages, Coalesce(data, CallStartedText), "system")
  /\ sdkCalls' = <<>>
  /\ lastOp' = "call_started"
  /\ UNCHANGED <<isCalling, isAgentTalking, input, retellWebClientRef, subscribed>>

OnCallEndedKeepsTalking(data) ==
  /\ subscribed
  /\ Len(messages) < MaxMsgs
  /\ messages' = addMessage(messages, Coalesce(data, CallEndedText), "system")
  /\ isCalling' = FALSE
  /\ sdkCalls' = <<>>
  /\ lastOp' = "call_ended"
  /\ UNCHANGED <<isAgentTalking, input, retellWebClientRef, subscribed>>

\* client.on("call_ended", ...)
OnCallEnded(data) ==
  /\ subscribed
  /\ Len(messages) < MaxMsgs
  /\ messages' = addMessage(messages, Coalesce(data, CallEndedText), "system")
  /\ isCalling' = FALSE
  /\ isAgentTalking' = FALSE
  /\ sdkCalls' = <<>>
  /\ lastOp' = "call_ended"
  /\ UNCHANGED <<input, retellWebClientRef, subscribed>>

\* client.on("agent_start_talking", ...)
OnAgentStartTalking ==
  /\ subscribed
  /\ isAgentTalking' = TRUE
  /\ sdkCalls' = <<>>
  /\ lastOp' = "agent_start_talking"
  /\ UNCHANGED <<isCalling, messages, input, retellWebClientRef, subscribed>>

\* client.on("agent_stop_talking", ...)
OnAgentStopTalking ==
  /\ subscribed
  /\ isAgentTalking' = FALSE
  /\ sdkCalls' = <<>>
  /\ lastOp' = "agent_stop_talking"
  /\ UNCHANGED <<isCalling, messages, input, retellWebClientRef, subscribed>>

\* The "status" part of the update callback.
updateStatus(msgs, u) ==
  IF "status" \in u.keys
  THEN LET m1 == IF u.status = Some(Str("listening"))
                 THEN addMessage(msgs, ListeningText, "system") ELSE msgs
       IN IF u.status = Some(Str("recognizing"))
          THEN addMessage(m1, RecognizingText, "system") ELSE m1
  ELSE msgs

\* The "agent_message" part of the update callback.
updateAgentMessage(msgs, u) ==
  IF "agent_message" \in u.keys
  THEN addMessage(msgs, Coalesce(u.agent_message, <<>>), "agent") ELSE msgs

\* The "user_message" part of the update callback.
updateUserMessage(msgs, u) ==
  IF "user_message" \in u.keys
  THEN addMessage(msgs, Coalesce(u.user_message, <<>>), "user") ELSE msgs

updateMessagesUserFirst(msgs, u) ==
  IF "error" \in u.keys
  THEN addMessage(msgs, Coalesce(u.error, UnknownErrorText), "system")
  ELSE updateAgentMessage(updateUserMessage(updateStatus(msgs, u), u), u)

updateMessagesNoReturn(msgs, u) ==
  LET m0 == IF "error" \in u.keys
            THEN addMessage(msgs, Coalesce(u.error, UnknownErrorText), "system")
            ELSE msgs
  IN updateUserMessage(updateAgentMessage(updateStatus(m0, u), u), u)

\* The transcript after the update callback has run on msgs.
updateMessages(msgs, u) ==
  IF "error" \in u.keys
  THEN addMessage(msgs, Coalesce(u.error, UnknownErrorText), "system")
  ELSE updateUserMessage(updateAgentMessage(updateStatus(msgs, u), u), u)

\* The SDK methods the update callback invokes.
updateCalls(u) ==
  IF "error" \in u.keys THEN <<Call("stopCall", <<>>)>> ELSE <<>>

\* client.on("update", ...)
OnUpdate(u) ==
  /\ subscribed
  /\ Len(updateMessages(messages, u)) <= MaxMsgs
  /\ messages' = updateMessages(messages, u)
  /\ sdkCalls' = updateCalls(u)
  /\ lastOp' = "update"
  /\ UNCHANGED <<isCalling, isAgentTalking, input, retellWebClientRef, subscribed>>

\* client.on("error", ...)
OnError(error) ==
  /\ subscribed
  /\ Len(messages) < MaxMsgs
  /\ messages' = addMessage(messages, Coalesce(error, UnknownErrorText), "system")
  /\ sdkCalls' = <<Call("stopCall", <<>>)>>
  /\ lastOp' = "error"
  /\ UNCHANGED <<isCalling, isAgentTalking, input, retellWebClientRef, subscribed>>

StartCallAlwaysOffered == TRUE

\* The header shows Start Call when isCalling is false, End Call otherwise.
StartCallOffered == ~isCalling

EndCallOffered == isCalling

\* editable={isCalling} and disabled={!isCalling}
InputEnabled == isCalling

\* const startCall = () => ...
startCall ==
  /\ StartCallOffered
  /\ Len(messages) < MaxMsgs
  /\ IF retellWebClientRef = NoClient
     THEN /\ messages' = addMessage(messages, NotInitializedText, "system")
          /\ sdkCalls' = <<>>
          /\ UNCHANGED isCalling
     ELSE /\ isCalling' = TRUE
          /\ messages' = addMessage(messages, CallingAgentText, "system")
          /\ sdkCalls' = <<Call("startCall", agentId)>>
  /\ lastOp' = "startCall"
  /\ UNCHANGED <<isAgentTalking, input, retellWebClientRef, subscribed>>

\* const stopCall = () => ...
stopCall ==
  /\ EndCallOffered
  /\ Len(messages) < MaxMsgs
  /\ IF retellWebClientRef = NoClient
     THEN /\ messages' = addMessage(messages, NotInitializedText, "system")
          /\ sdkCalls' = <<>>
          /\ UNCHANGED <<isCalling, isAgentTalking>>
     ELSE /\ isCalling' = FALSE
          /\ isAgentTalking' = FALSE
          /\ sdkCalls' = <<Call("stopCall", <<>>)>>
          /\ messages' = addMessage(messages, CallEndedText, "system")
  /\ lastOp' = "stopCall"
  /\ UNCHANGED <<input, retellWebClientRef, subscribed>>

sendMessageEmptyFirst ==
  /\ InputEnabled
  /\ LET message == trim(input)
     IN IF message = <<>>
        THEN /\ sdkCalls' = <<>>
             /\ UNCHANGED <<messages, input>>
        ELSE IF retellWebClientRef = NoClient
        THEN /\ Len(messages) < MaxMsgs
             /\ messages' = addMessage(messages, NotInitializedText, "system")
             /\ sdkCalls' = <<>>
             /\ UNCHANGED input
        ELSE /\ Len(messages) < MaxMsgs
             /\ messages' = addMessage(messages, message, "user")
             /\ sdkCalls' = <<Call("sendUserMessage", message)>>
             /\ input' = <<>>
  /\ lastOp' = "sendMessage"
  /\ UNCHANGED <<isCalling, isAgentTalking, retellWebClientRef, subscribed>>

\* const sendMessage = () => ...
sendMessage ==
  /\ InputEnabled
  /\ LET message == trim(input)
     IN IF retellWebClientRef = NoClient
        THEN /\ Len(messages) < MaxMsgs
             /\ messages' = addMessage(messages, NotInitializedText, "system")
             /\ sdkCalls' = <<>>
             /\ UNCHANGED input
        ELSE IF message = <<>>
        THEN /\ sdkCalls' = <<>>
             /\ UNCHANGED <<messages, input>>
        ELSE /\ Len(messages) < MaxMsgs
             /\ messages' = addMessage(messages, message, "user")
             /\ sdkCalls' = <<Call("sendUserMessage", message)>>
             /\ input' = <<>>
  /\ lastOp' = "sendMessage"
  /\ UNCHANGED <<isCalling, isAgentTalking, retellWebClientRef, subscribed>>

\* onChangeText={setInput}
onChangeText(text) ==
  /\ InputEnabled
  /\ input' = text
  /\ sdkCalls' = <<>>
  /\ lastOp' = "onChangeText"
  /\ UNCHANGED <<isCalling, isAgentTalking, messages, retellWebClientRef, subscribed>>

Next ==
  \/ MountEffect
  \/ Cleanup
  \/ \E data \in SdkValues : OnCallStarted(data)
  \/ \E data \in SdkValues : OnCallEnded(data)
  \/ OnAgentStartTalking
  \/ OnAgentStopTalking
  \/ \E u \in Updates : OnUpdate(u)
  \/ \E error \in SdkValues : OnError(error)
  \/ startCall
  \/ stopCall
  \/ sendMessage
  \/ \E text \in TypedTexts : onChangeText(text)

Spec == Init /\ [][Next]_vars

----------------------------------------------------------------------------
IsPrefix(a, b) == Len(a) <= Len(b) /\ SubSeq(b, 1, Len(a)) = a

Last(seq) == seq[Len(seq)]

Entry(type, text) == [type |-> type, text |-> text]

StopCallOnce == <<Call("stopCall", <<>>)>>

\* m is s without its leading and trailing white space.
IsTrimOf(m, s) ==
  /\ \E i \in 1..(Len(s) + 1) : \E j \in 0..Len(s) :
       /\ m = SubSeq(s, i, j)
       /\ \A k \in 1..Len(s) : (k < i \/ k > j) => s[k] \in WhiteSpace
  /\ m # <<>> => (m[1] \notin WhiteSpace /\ m[Len(m)] \notin WhiteSpace)

SdkEvents ==
  {"call_started", "call_ended", "agent_start_talking", "agent_stop_talking",
   "update", "error"}

\* C1: every step leaves the transcript it found as a prefix of the transcript
\* it leaves: no entry is removed, reordered or changed, and new entries come
\* after the old ones.
C1_AppendOnly == [][IsPrefix(messages, messages')]_vars

C1_Witness ==
  /\ Len(messages) >= 2
  /\ lastOp \in SdkEvents \cup {"startCall", "stopCall", "sendMessage"}

UpdateEntryCount(u) ==
  IF "error" \in u.keys THEN 1
  ELSE (IF u.status \in {Some(Str("listening")), Some(Str("recognizing"))}
        THEN 1 ELSE 0)
       + (IF "agent_message" \in u.keys THEN 1 ELSE 0)
       + (IF "user_message" \in u.keys THEN 1 ELSE 0)

Appended == SubSeq(messages', Len(messages) + 1, Len(messages'))

IsAgentEntry(e) == e.type = "agent"

IsUserEntry(e) == e.type = "user"

IsSpokenEntry(e) == e.type \in {"agent", "user"}

\* C3 as stated: an update without an error key that has an agent_message
\* appends exactly one agent entry whose text is that message, one that has a
\* user_message appends exactly one user entry whose text is that message, and
\* the agent entry comes before the user entry.
C3_Original ==
  [][\A u \in PlainUpdates : OnUpdate(u) =>
       /\ IsPrefix(messages, messages')
       /\ "agent_message" \in u.keys =>
            /\ Len(SelectSeq(Appended, IsAgentEntry)) = 1
            /\ Some(SelectSeq(Appended, IsAgentEntry)[1].text) = u.agent_message
       /\ "user_message" \in u.keys =>
            /\ Len(SelectSeq(Appended, IsUserEntry)) = 1
            /\ Some(SelectSeq(Appended, IsUserEntry)[1].text) = u.user_message
       /\ {"agent_message", "user_message"} \subseteq u.keys =>
            SelectSeq(Appended, IsSpokenEntry)[1].type = "agent"]_vars

\* C3 as amended: the same, the text of the entry being the message or, when
\* the message is null or undefined, the empty string.
C3_Amended ==
  [][\A u \in PlainUpdates : OnUpdate(u) =>
       /\ IsPrefix(messages, messages')
       /\ "agent_message" \in u.keys =>
            SelectSeq(Appended, IsAgentEntry) =
              <<Entry("agent", IF u.agent_message.isNull THEN <<>>
                               ELSE u.agent_message.val)>>
       /\ "user_message" \in u.keys =>
            SelectSeq(Appended, IsUserEntry) =
              <<Entry("user", IF u.user_message.isNull THEN <<>>
                              ELSE u.user_message.val)>>
       /\ {"agent_message", "user_message"} \subseteq u.keys =>
            /\ Len(SelectSeq(Appended, IsSpokenEntry)) = 2
            /\ SelectSeq(Appended, IsSpokenEntry)[1].type = "agent"
            /\ SelectSeq(Appended, IsSpokenEntry)[2].type = "user"]_vars

C3_Witness ==
  /\ lastOp = "update"
  /\ sdkCalls = <<>>
  /\ Len(messages) >= 2
  /\ messages[Len(messages) - 1] = Entry("agent", SdkText)
  /\ messages[Len(messages)] = Entry("user", SdkText)

\* What the handling of a failure whose error string is error must do.
FailureHandled(error) ==
  /\ messages' = Append(messages,
                        Entry("system", IF error.isNull THEN UnknownErrorText
                                        ELSE error.val))
  /\ sdkCalls' = StopCallOnce

\* C4: an error event, and an update that has an error key whatever its other
\* keys, appends exactly one system entry carrying the error string ("Unknown
\* error" for null or undefined) and invokes stopCall once and nothing else.
C4_FailureHandling ==
  [][/\ \A error \in SdkValues : OnError(error) => FailureHandled(error)
     /\ \A u \in ErrorUpdates : OnUpdate(u) => FailureHandled(u.error)]_vars

C4_Witness ==
  /\ lastOp = "update"
  /\ sdkCalls = StopCallOnce
  /\ Len(messages) >= 1
  /\ Last(messages) = Entry("system", UnknownErrorText)

\* C5: sendMessage with the client initialized appends one user entry with the
\* typed text trimmed, sends that text once and clears the input when the
\* trimmed text is not empty; otherwise it changes nothing and calls nothing.
C5_SendMessage ==
  [][(lastOp' = "sendMessage" /\ retellWebClientRef = Client) =>
       IF \E k \in 1..Len(input) : input[k] \notin WhiteSpace
       THEN /\ Len(messages') = Len(messages) + 1
            /\ IsPrefix(messages, messages')
            /\ Last(messages').type = "user"
            /\ IsTrimOf(Last(messages').text, input)
            /\ sdkCalls' = <<Call("sendUserMessage", Last(messages').text)>>
            /\ input' = <<>>
       ELSE /\ UNCHANGED <<messages, input, isCalling, isAgentTalking>>
            /\ sdkCalls' = <<>>]_vars

C5_Witness ==
  /\ lastOp = "sendMessage"
  /\ retellWebClientRef = Client
  /\ input = <<>>
  /\ sdkCalls = <<Call("sendUserMessage", <<"a", " ", "b">>)>>
  /\ Len(messages) >= 1
  /\ Last(messages) = Entry("user", <<"a", " ", "b">>)

\* C6: startCall runs only while call-active is false; with the client
\* initialized it sets call-active, appends "Calling agent..." and invokes
\* client.startCall once with the agent id; no step invokes client.startCall
\* from a state where call-active is true.
C6_StartCall ==
  [][/\ lastOp' = "startCall" => ~isCalling
     /\ (lastOp' = "startCall" /\ retellWebClientRef = Client) =>
          /\ isCalling'
          /\ messages' = Append(messages, Entry("system", CallingAgentText))
          /\ sdkCalls' = <<Call("startCall", agentId)>>
     /\ (\E i \in 1..Len(sdkCalls') : sdkCalls'[i].method = "startCall") =>
          ~isCalling]_vars

C6_Witness ==
  /\ lastOp = "startCall"
  /\ isCalling
  /\ sdkCalls = <<Call("startCall", agentId)>>
  /\ Len(messages) >= 1
  /\ Last(messages) = Entry("system", CallingAgentText)

\* C7: after an error event, or an update that has an error key, has been
\* handled, call-active is false.
C7_FailureEndsCall ==
  [][(\/ \E error \in SdkValues : OnError(error)
      \/ \E u \in ErrorUpdates : OnUpdate(u)) => ~isCalling']_vars

\* C8: after the call_ended handler, and after stopCall with the client
\* initialized, both flags are false and exactly one system entry has been
\* appended; stopCall has invoked client.stopCall once.
C8_EndResetsFlags ==
  [][/\ lastOp' = "call_ended" =>
          /\ ~isCalling' /\ ~isAgentTalking'
          /\ IsPrefix(messages, messages')
          /\ Len(messages') = Len(messages) + 1
          /\ Last(messages').type = "system"
     /\ (lastOp' = "stopCall" /\ retellWebClientRef = Client) =>
          /\ ~isCalling' /\ ~isAgentTalking'
          /\ IsPrefix(messages, messages')
          /\ Len(messages') = Len(messages) + 1
          /\ Last(messages').type = "system"
          /\ sdkCalls' = StopCallOnce]_vars

C8_Witness ==
  /\ lastOp = "stopCall"
  /\ retellWebClientRef = Client
  /\ sdkCalls = StopCallOnce
  /\ ~isCalling /\ ~isAgentTalking
  /\ Len(messages) >= 1
  /\ Last(messages) = Entry("system", CallEndedText)

\* C9: with the client reference null, startCall, stopCall and sendMessage
\* each append one system entry "Client not initialized", invoke no SDK method
\* and leave both flags and the typed input unchanged, sendMessage also when
\* the input is empty or white space.
C9_ClientNotInitialized ==
  [][(lastOp' \in {"startCall", "stopCall", "sendMessage"}
      /\ retellWebClientRef = NoClient) =>
       /\ messages' = Append(messages, Entry("system", NotInitializedText))
       /\ sdkCalls' = <<>>
       /\ UNCHANGED <<isCalling, isAgentTalking, input>>]_vars

C9_Witness ==
  /\ lastOp = "sendMessage"
  /\ retellWebClientRef = NoClient
  /\ input = <<" ", "\t">>
  /\ sdkCalls = <<>>
  /\ Len(messages) >= 1
  /\ Last(messages) = Entry("system", NotInitializedText)

\* C10: agent-speaking is true only if call-active is true.
C10_TalkingOnlyInCall == isAgentTalking => isCalling

====
